---- MODULE Spec2Model ----
(***************************************************************************)
(* Model of app.py (coletas): the tabular-text parser, the normalisation   *)
(* and key builder, the base repository (ensure_base_loaded) and the three *)
(* Flask routes (index, upload_dia, download_pdf).                         *)
(*                                                                         *)
(* Text is a TLA+ string; a character is a string of length 1.  A file is  *)
(* the sequence of lines str.splitlines() gives for its decoded content.   *)
(* A DataFrame is a record [isNone, columns, rows]: the column labels in   *)
(* order and the rows, each a sequence of cell strings aligned with them.  *)
(***************************************************************************)
EXTENDS Naturals, Sequences, FiniteSets, TLC

VARIABLES
    base_csv,   \* data/base.csv on disk: [exists, lines]
    base_txt,   \* data/base.txt on disk: [exists, lines]
    DF_BASE,    \* global DF_BASE (None or a DataFrame)
    DF_MATCH,   \* global DF_MATCH (None or a DataFrame)
    response,   \* what the last request answered
    request,    \* the last request received
    pc,         \* position of an in-flight download_pdf request
    dl_seen,    \* the DF_MATCH that download_pdf's check (line 248) read
    dl_rows,    \* download_pdf's local `rows` (line 262)
    fn_op,      \* which pure function was applied last
    fn_in,      \* its argument
    fn_out      \* its result

vars == <<base_csv, base_txt, DF_BASE, DF_MATCH, response, request,
          pc, dl_seen, dl_rows, fn_op, fn_in, fn_out>>

----------------------------------------------------------------------------
(* Characters and the str / re primitives the code uses.                   *)

ASCII_UPPER == "ABCDEFGHIJKLMNOPQRSTUVWXYZ"
ASCII_LOWER == "abcdefghijklmnopqrstuvwxyz"
DIGITS == "0123456789"
\* Accented letters that occur in the files, with their lower-case, upper-case
\* and unidecode images (position by position).
ACC_UPPER == "ÇÃÉÚ"
ACC_LOWER == "çãéú"
ACC_PLAIN_UPPER == "CAEU"
ACC_PLAIN_LOWER == "caeu"

Ch(s, i) == SubSeq(s, i, i)

CharsOf(s) == {Ch(s, i) : i \in 1..Len(s)}

IndexOf(c, s) == IF \E i \in 1..Len(s) : Ch(s, i) = c
                 THEN CHOOSE i \in 1..Len(s) : Ch(s, i) = c
                 ELSE 0

\* regex \s
IsSpace(c) == c \in {" ", "\t", "\n", "\r"}

\* regex \d
IsDigit(c) == IndexOf(c, DIGITS) > 0

IsLetter(c) == \/ IndexOf(c, ASCII_UPPER) > 0
               \/ IndexOf(c, ASCII_LOWER) > 0
               \/ IndexOf(c, ACC_UPPER) > 0
               \/ IndexOf(c, ACC_LOWER) > 0

\* regex \w: letters, digits and the underscore
IsWord(c) == IsLetter(c) \/ IsDigit(c) \/ c = "_"

LowerCh(c) == IF IndexOf(c, ASCII_UPPER) > 0
              THEN Ch(ASCII_LOWER, IndexOf(c, ASCII_UPPER))
              ELSE IF IndexOf(c, ACC_UPPER) > 0
                   THEN Ch(ACC_LOWER, IndexOf(c, ACC_UPPER))
                   ELSE c

UpperCh(c) == IF IndexOf(c, ASCII_LOWER) > 0
              THEN Ch(ASCII_UPPER, IndexOf(c, ASCII_LOWER))
              ELSE IF IndexOf(c, ACC_LOWER) > 0
                   THEN Ch(ACC_UPPER, IndexOf(c, ACC_LOWER))
                   ELSE c

UnidecodeCh(c) == IF IndexOf(c, ACC_UPPER) > 0
                  THEN Ch(ACC_PLAIN_UPPER, IndexOf(c, ACC_UPPER))
                  ELSE IF IndexOf(c, ACC_LOWER) > 0
                       THEN Ch(ACC_PLAIN_LOWER, IndexOf(c, ACC_LOWER))
                       ELSE c

RECURSIVE LowerFrom(_, _)
LowerFrom(s, i) == IF i > Len(s) THEN ""
                   ELSE LowerCh(Ch(s, i)) \o LowerFrom(s, i + 1)
\* str.lower()
lower(s) == LowerFrom(s, 1)

RECURSIVE UpperFrom(_, _)
UpperFrom(s, i) == IF i > Len(s) THEN ""
                   ELSE UpperCh(Ch(s, i)) \o UpperFrom(s, i + 1)
\* str.upper()
upper(s) == UpperFrom(s, 1)

RECURSIVE UnidecodeFrom(_, _)
UnidecodeFrom(s, i) == IF i > Len(s) THEN ""
                       ELSE UnidecodeCh(Ch(s, i)) \o UnidecodeFrom(s, i + 1)
\* unidecode.unidecode()
unidecode(s) == UnidecodeFrom(s, 1)

\* `sub in s`
Contains(s, sub) ==
    \E i \in 1..(Len(s) + 1) :
        /\ i + Len(sub) - 1 <= Len(s)
        /\ SubSeq(s, i, i + Len(sub) - 1) = sub

\* str.strip()
strip(s) ==
    LET keep == {i \in 1..Len(s) : ~IsSpace(Ch(s, i))}
    IN  IF keep = {} THEN ""
        ELSE LET lo == CHOOSE i \in keep : \A j \in keep : i <= j
                 hi == CHOOSE i \in keep : \A j \in keep : j <= i
             IN  SubSeq(s, lo, hi)

\* Length of the maximal run of characters of `seps` that starts at i.
RECURSIVE RunLen(_, _, _)
RunLen(s, i, seps) == IF i > Len(s) \/ Ch(s, i) \notin seps THEN 0
                      ELSE 1 + RunLen(s, i + 1, seps)

WHITESPACE == {" ", "\t", "\n", "\r"}

RECURSIVE CollapseFrom(_, _)
CollapseFrom(s, i) ==
    IF i > Len(s) THEN ""
    ELSE IF IsSpace(Ch(s, i))
         THEN " " \o CollapseFrom(s, i + RunLen(s, i, WHITESPACE))
         ELSE Ch(s, i) \o CollapseFrom(s, i + 1)
\* re.sub(r'\s+', ' ', s)
CollapseSpaces(s) == CollapseFrom(s, 1)

RECURSIVE PunctFrom(_, _)
PunctFrom(s, i) ==
    IF i > Len(s) THEN ""
    ELSE (IF IsWord(Ch(s, i)) \/ IsSpace(Ch(s, i)) THEN Ch(s, i) ELSE " ")
         \o PunctFrom(s, i + 1)
\* re.sub(r'[^\w\s]', ' ', s)
PunctToSpace(s) == PunctFrom(s, 1)

RECURSIVE UnderscoreFrom(_, _)
UnderscoreFrom(s, i) ==
    IF i > Len(s) THEN ""
    ELSE (IF Ch(s, i) = "_" THEN " " ELSE Ch(s, i)) \o UnderscoreFrom(s, i + 1)
\* s.replace('_', ' ')
ReplaceUnderscore(s) == UnderscoreFrom(s, 1)

RECURSIVE DigitsFrom(_, _)
DigitsFrom(s, i) ==
    IF i > Len(s) THEN ""
    ELSE (IF IsDigit(Ch(s, i)) THEN Ch(s, i) ELSE "") \o DigitsFrom(s, i + 1)
\* re.sub(r'\D', '', s)
OnlyDigits(s) == DigitsFrom(s, 1)

CEP_WIDTH == 8

\* a padding that also cuts to the width, keeping the last `width` characters
zfill_cut(s, width) ==
    IF Len(s) >= width THEN SubSeq(s, Len(s) - width + 1, Len(s))
    ELSE SubSeq("00000000", 1, width - Len(s)) \o s

RECURSIVE zfill(_, _)
\* str.zfill(width): zeros on the left up to width, never a cut
zfill(s, width) == IF Len(s) >= width THEN s ELSE zfill("0" \o s, width)

----------------------------------------------------------------------------
(* parse_txt_to_df's inner helpers (lines 123-149).                        *)

clean_txt(s) == CollapseSpaces(ReplaceUnderscore(strip(s)))

norm_text(s) == CollapseSpaces(PunctToSpace(strip(upper(unidecode(s)))))

norm_cep(s) == LET d == OnlyDigits(s)
               IN  IF d # "" THEN zfill(d, CEP_WIDTH) ELSE ""

----------------------------------------------------------------------------
(* DataFrames.                                                             *)

\* A function on 1..n as a tuple whose elements are computed once.
List(f) == f \o <<>>

None == [isNone |-> TRUE, columns |-> <<>>, rows |-> <<>>]

Frame(cols, rws) == [isNone |-> FALSE, columns |-> List(cols), rows |-> List(rws)]

\* pd.DataFrame(): no columns, no rows
EmptyFrame == Frame(<<>>, <<>>)

Range(f) == {f[i] : i \in DOMAIN f}

HasColumn(df, name) == name \in Range(df.columns)

ColumnIndex(df, name) == CHOOSE i \in 1..Len(df.columns) : df.columns[i] = name

\* df[name] as the sequence of its cells
Column(df, name) ==
    LET k == ColumnIndex(df, name) IN List([r \in 1..Len(df.rows) |-> df.rows[r][k]])

\* len(df)
FrameLen(df) == Len(df.rows)

\* df[name] = values: replaces the column when it exists, appends it otherwise
SetColumn(df, name, values) ==
    IF HasColumn(df, name)
    THEN LET k == ColumnIndex(df, name)
         IN  Frame(df.columns,
                   [r \in 1..Len(df.rows) |->
                       List([i \in 1..Len(df.columns) |->
                               IF i = k THEN values[r] ELSE df.rows[r][i]])])
    ELSE Frame(Append(df.columns, name),
               [r \in 1..Len(df.rows) |-> Append(df.rows[r], values[r])])

----------------------------------------------------------------------------
(* Line tokenizer, header locator, table builder (lines 38-95).            *)

RECURSIVE SplitFrom(_, _, _, _, _)
\* re.split on maximal runs of at least k characters of seps
SplitFrom(s, i, start, seps, k) ==
    IF i > Len(s) THEN <<SubSeq(s, start, Len(s))>>
    ELSE LET n == RunLen(s, i, seps)
         IN  IF n >= k
             THEN <<SubSeq(s, start, i - 1)>> \o SplitFrom(s, i + n, i + n, seps, k)
             ELSE SplitFrom(s, i + (IF n > 0 THEN n ELSE 1), start, seps, k)

ReSplit(s, seps, k) == SplitFrom(s, 1, 1, seps, k)

split_linha(linha) ==
    IF Contains(linha, "\t")
    THEN ReSplit(linha, {"\t"}, 1)
    ELSE LET cols == ReSplit(linha, WHITESPACE, 2)
         IN  IF Len(cols) = 1 THEN ReSplit(linha, WHITESPACE, 1) ELSE cols

IsHeaderLine(l) ==
    LET low == lower(l)
    IN  /\ Contains(low, "remetente")
        /\ (Contains(low, "endereço") \/ Contains(low, "endereco"))
        /\ Contains(low, "cep")

\* Index (from 1) of the header line; the first line when none qualifies.
encontrar_linha_cabecalho(linhas) ==
    IF \E i \in 1..Len(linhas) : IsHeaderLine(linhas[i])
    THEN CHOOSE i \in 1..Len(linhas) :
            /\ IsHeaderLine(linhas[i])
            /\ \A j \in 1..(i - 1) : ~IsHeaderLine(linhas[j])
    ELSE 1

IsBlankLine(l) == strip(l) = ""

\* the list comprehension of lines 74 / 79
NonBlankLines(lines) == SelectSeq(lines, LAMBDA l : ~IsBlankLine(l))

\* lines 89-93: pad with '' up to the header's length, then cut to it
PadRow(cols, n) == List([i \in 1..n |-> IF i <= Len(cols) THEN cols[i] ELSE ""])

\* lines 84-95
BuildTable(linhas) ==
    LET idx    == encontrar_linha_cabecalho(linhas)
        header == split_linha(linhas[idx])
        data   == SubSeq(linhas, idx + 1, Len(linhas))
    IN  Frame(header,
              [r \in 1..Len(data) |-> PadRow(split_linha(data[r]), Len(header))])

----------------------------------------------------------------------------
(* Column mapper (lines 98-120).                                           *)

colmap(c) ==
    LET c_low == lower(strip(c))
    IN  IF Contains(c_low, "remetent") THEN "Remetente"
        ELSE IF \/ Contains(c_low, "endereço orig")
                \/ Contains(c_low, "endereco orig")
                \/ (Contains(c_low, "endereço") /\ Contains(c_low, "orig"))
             THEN "EnderecoOrigem"
        ELSE IF \/ Contains(c_low, "cep orig")
                \/ (Contains(c_low, "cep") /\ Contains(c_low, "orig"))
             THEN "CEPOrigem"
        ELSE IF Contains(c_low, "endereço") /\ Contains(c_low, "dest")
             THEN "EnderecoDestino"
        ELSE IF Contains(c_low, "destinat") THEN "Destinatario"
        ELSE c

\* df.rename(columns=colmap)
RenameColumns(df) == Frame([i \in 1..Len(df.columns) |-> colmap(df.columns[i])], df.rows)

NEEDED == <<"Remetente", "EnderecoOrigem", "CEPOrigem">>

RECURSIVE EnsureFrom(_, _)
\* lines 118-120: a needed column that is absent is created, filled with ''
EnsureFrom(df, k) ==
    IF k > Len(NEEDED) THEN df
    ELSE EnsureFrom(IF HasColumn(df, NEEDED[k]) THEN df
                    ELSE SetColumn(df, NEEDED[k], [r \in 1..Len(df.rows) |-> ""]),
                    k + 1)

EnsureColumns(df) == EnsureFrom(df, 1)

\* lines 98-120 on a header alone: the column labels after the mapping
MappedColumns(header) == EnsureColumns(RenameColumns(Frame(header, <<>>))).columns

\* Two columns renamed to the same needed name make df[name] a DataFrame, and
\* clean_txt's `if pd.isna(s)` (line 124) raises on the Series it is handed.
HasDuplicateNeeded(df) ==
    \E i, j \in 1..Len(df.columns) :
        i # j /\ df.columns[i] = df.columns[j] /\ df.columns[i] \in Range(NEEDED)

----------------------------------------------------------------------------
(* Field normaliser and key builder (lines 133-155), parse_txt_to_df.      *)

\* col.apply(clean_txt), col.apply(norm_text), col.apply(norm_cep)
ApplyCleanTxt(col) == List([r \in 1..Len(col) |-> clean_txt(col[r])])

ApplyNormText(col) == List([r \in 1..Len(col) |-> norm_text(col[r])])

ApplyNormCep(col) == List([r \in 1..Len(col) |-> norm_cep(col[r])])

chave(df) ==
    LET a == Column(df, "remetente_norm")
        b == Column(df, "endereco_norm")
        c == Column(df, "cep_norm")
    IN  List([r \in 1..Len(df.rows) |-> a[r] \o "|" \o b[r] \o "|" \o c[r]])

\* lines 133-135: df[name] = df[name].apply(clean_txt)
CleanColumn(df, name) == SetColumn(df, name, ApplyCleanTxt(Column(df, name)))

\* lines 151-152: df[target] = df[source].apply(norm_text)
NormTextColumn(df, target, source) ==
    SetColumn(df, target, ApplyNormText(Column(df, source)))

\* line 153: df[target] = df[source].apply(norm_cep)
NormCepColumn(df, target, source) ==
    SetColumn(df, target, ApplyNormCep(Column(df, source)))

\* line 155
AddChave(df) == SetColumn(df, "chave", chave(df))

\* lines 133-155, innermost first: the three cleaned columns (133-135), the
\* three normalised columns (151-153), the key (155)
NormalizeFrame(df0) ==
    AddChave(
     NormCepColumn(
      NormTextColumn(
       NormTextColumn(
        CleanColumn(
         CleanColumn(
          CleanColumn(df0, "Remetente"),
          "EnderecoOrigem"),
         "CEPOrigem"),
        "remetente_norm", "Remetente"),
       "endereco_norm", "EnderecoOrigem"),
      "cep_norm", "CEPOrigem"))

\* The result of a call: the DataFrame returned, or raised = TRUE.
Returned(df) == [raised |-> FALSE, df |-> df]
Raised == [raised |-> TRUE, df |-> None]

\* lines 123-157 on the table with its columns renamed and ensured
ParseTable(df) ==
    IF HasDuplicateNeeded(df) THEN Raised ELSE Returned(NormalizeFrame(df))

\* lines 81-157 on the non-blank lines
ParseLines(linhas) ==
    IF linhas = <<>> THEN Returned(EmptyFrame)
    ELSE ParseTable(EnsureColumns(RenameColumns(BuildTable(linhas))))

\* parse_txt_to_df on the lines of the decoded text
parse_txt_to_df(lines) == ParseLines(NonBlankLines(lines))

----------------------------------------------------------------------------
(* The snapshot file: DataFrame.to_csv(index=False) and                    *)
(* pd.read_csv(dtype=str).fillna('') (lines 173, 191).                     *)

RECURSIVE NatStr(_)
\* str(n) of a natural number
NatStr(n) == IF n < 10 THEN Ch(DIGITS, n + 1)
             ELSE NatStr(n \div 10) \o Ch(DIGITS, (n % 10) + 1)

RECURSIVE DoubleQuotesFrom(_, _)
DoubleQuotesFrom(s, i) ==
    IF i > Len(s) THEN ""
    ELSE (IF Ch(s, i) = "\"" THEN "\"\"" ELSE Ch(s, i)) \o DoubleQuotesFrom(s, i + 1)

\* csv.QUOTE_MINIMAL
QuoteField(s) ==
    IF Contains(s, ",") \/ Contains(s, "\"") \/ Contains(s, "\n") \/ Contains(s, "\r")
    THEN "\"" \o DoubleQuotesFrom(s, 1) \o "\""
    ELSE s

RECURSIVE JoinFields(_, _)
JoinFields(fields, i) ==
    IF i > Len(fields) THEN ""
    ELSE (IF i > 1 THEN "," ELSE "") \o QuoteField(fields[i]) \o JoinFields(fields, i + 1)

\* One written row; a row that is a single empty field is written as "".
CsvLine(fields) == IF fields = <<"">> THEN "\"\"" ELSE JoinFields(fields, 1)

\* The lines df.to_csv(path, index=False) writes.
to_csv(df) == <<CsvLine(df.columns)>> \o [r \in 1..Len(df.rows) |-> CsvLine(df.rows[r])]

\* The k-th smallest element of a set of numbers
Nth(S, k) == CHOOSE i \in S : Cardinality({j \in S : j < i}) = k - 1

\* Position i of the line lies outside quotes
OutsideQuotes(l, i) == Cardinality({j \in 1..(i - 1) : Ch(l, j) = "\""}) % 2 = 0

RECURSIVE UnquoteFrom(_, _)
UnquoteFrom(s, i) ==
    IF i > Len(s) THEN ""
    ELSE IF Ch(s, i) = "\"" /\ i < Len(s) /\ Ch(s, i + 1) = "\""
         THEN "\"" \o UnquoteFrom(s, i + 2)
         ELSE Ch(s, i) \o UnquoteFrom(s, i + 1)

\* A field as read: the quotes around it dropped, "" inside them a quote
Unquote(f) == IF Len(f) >= 2 /\ Ch(f, 1) = "\"" /\ Ch(f, Len(f)) = "\""
              THEN UnquoteFrom(SubSeq(f, 2, Len(f) - 1), 1)
              ELSE f

\* The fields of one line: the commas outside quotes separate them
ParseCsvLine(l) ==
    LET commas == {i \in 1..Len(l) : Ch(l, i) = "," /\ OutsideQuotes(l, i)}
        n      == Cardinality(commas)
        from(k) == IF k = 1 THEN 1 ELSE Nth(commas, k - 1) + 1
        to(k)   == IF k = n + 1 THEN Len(l) ELSE Nth(commas, k) - 1
    IN  List([k \in 1..(n + 1) |-> Unquote(SubSeq(l, from(k), to(k)))])

\* pandas' default na_values, which fillna('') turns into ''
NA_VALUES == {"", "#N/A", "#N/A N/A", "#NA", "-1.#IND", "-1.#QNAN", "-NaN", "-nan",
              "1.#IND", "1.#QNAN", "<NA>", "N/A", "NA", "NULL", "NaN", "None",
              "n/a", "nan", "null"}

FillNa(v) == IF v \in NA_VALUES THEN "" ELSE v

\* read_csv's column labels: an empty label is "Unnamed: i", a repeated one "x.k"
CsvColumns(header) ==
    [i \in 1..Len(header) |->
        LET name  == IF header[i] = "" THEN "Unnamed: " \o NatStr(i - 1) ELSE header[i]
            before == Cardinality({j \in 1..(i - 1) : header[j] = header[i]})
        IN  IF before > 0 /\ header[i] # "" THEN name \o "." \o NatStr(before) ELSE name]

CsvDataLines(lines) == SelectSeq(lines, LAMBDA l : l # "")

\* read_csv raises: no line to take the columns from (EmptyDataError), or a row
\* with more fields than the header (ParserError)
read_csv_raises(lines) ==
    LET ls == CsvDataLines(lines)
    IN  \/ ls = <<>>
        \/ \E r \in 2..Len(ls) : Len(ParseCsvLine(ls[r])) > Len(ParseCsvLine(ls[1]))

\* pd.read_csv(BASE_CSV, dtype=str).fillna('')
read_csv(lines) ==
    LET ls     == CsvDataLines(lines)
        header == ParseCsvLine(ls[1])
    IN  Frame(CsvColumns(header),
              [r \in 1..(Len(ls) - 1) |->
                  LET f == ParseCsvLine(ls[r + 1])
                  IN  List([i \in 1..Len(header) |->
                              IF i <= Len(f) THEN FillNa(f[i]) ELSE ""])])

----------------------------------------------------------------------------
(* Base repository: ensure_base_loaded (lines 159-195).                    *)

File(ls) == [exists |-> TRUE, lines |-> ls]
NoFile == [exists |-> FALSE, lines |-> <<>>]

\* line 184
EmptyBase == Frame(<<"Remetente", "EnderecoOrigem", "CEPOrigem", "chave">>, <<>>)

\* lines 171-179: what the snapshot gives, None when it gives nothing
\* lines 176, 177-179: the frame a parse gave, None when it raised
FrameOrNone(p) == IF p.raised THEN None ELSE p.df

\* lines 174-176 on the frame d read from the snapshot
CheckSnapshot(d, csv) ==
    IF ~HasColumn(d, "chave") THEN FrameOrNone(parse_txt_to_df(csv.lines)) ELSE d

LoadSnapshot(csv) ==
    IF ~csv.exists \/ read_csv_raises(csv.lines) THEN None
    ELSE CheckSnapshot(read_csv(csv.lines), csv)

LOG_NONE == "none"
LOG_NOT_FOUND == "base.txt not found"
LOG_SAVED == "converted and saved"
LOG_SAVE_ERROR == "converted, error saving"

\* ensure_base_loaded: the new DF_BASE and base.csv, what was printed, and whether
\* the call raised (the parse of base.txt at line 188 is not inside a try).
\* save_ok: whether dfb.to_csv (line 191) could write the file.
\* lines 188-194 on the result p of parsing base.txt
ConvertRaw(p, csv, save_ok) ==
    IF p.raised
    THEN [df |-> None, csv |-> csv, log |-> LOG_NONE, raised |-> TRUE]
    ELSE [df |-> p.df,
          csv |-> IF save_ok THEN File(to_csv(p.df)) ELSE csv,
          log |-> IF save_ok THEN LOG_SAVED ELSE LOG_SAVE_ERROR,
          raised |-> FALSE]

\* lines 181-195 on what the snapshot gave
LoadFrom(snap, csv, txt, save_ok) ==
    IF ~snap.isNone
    THEN [df |-> snap, csv |-> csv, log |-> LOG_NONE, raised |-> FALSE]
    ELSE IF ~txt.exists
         THEN [df |-> EmptyBase, csv |-> csv, log |-> LOG_NOT_FOUND, raised |-> FALSE]
         ELSE ConvertRaw(parse_txt_to_df(txt.lines), csv, save_ok)

ensure_base_loaded(df, csv, txt, save_ok) ==
    IF ~df.isNone
    THEN [df |-> df, csv |-> csv, log |-> LOG_NONE, raised |-> FALSE]
    ELSE LoadFrom(LoadSnapshot(csv), csv, txt, save_ok)

----------------------------------------------------------------------------
(* Requests and responses.                                                 *)

NoFlash == [cat |-> "", msg |-> ""]

Response(kind, flash, total, lines, log) ==
    [kind |-> kind, flash |-> flash, total |-> total, lines |-> lines, log |-> log]

NoResponse == Response("none", NoFlash, 0, <<>>, LOG_NONE)

\* flash(msg, cat); return redirect(url_for('index'))
Redirect(cat, msg, log) == Response("redirect", [cat |-> cat, msg |-> msg], 0, <<>>, log)

\* an exception no handler catches: Flask answers 500
Error500(log) == Response("error500", NoFlash, 0, <<>>, log)

Request(route, has_file, filename, content) ==
    [route |-> route, has_file |-> has_file, filename |-> filename, content |-> content]

NoRequest == Request("none", FALSE, "", <<>>)

ALLOWED_EXT == {"txt", "csv"}

MSG_NO_FILE == "Nenhum arquivo enviado."
MSG_NO_NAME == "Nenhum arquivo selecionado."
MSG_BAD_EXT == "Formato não permitido. Use .txt ou .csv"
MSG_READ_ERROR == "Erro ao ler arquivo do dia"
MSG_NO_MATCH == "Nenhum registro repetido disponível."

\* line 240
MsgProcessed(count) ==
    "Processado. " \o NatStr(count) \o " endereços já constam na base histórica."

\* line 218
ExtOf(filename) ==
    IF Contains(filename, ".")
    THEN LET dots == {i \in 1..Len(filename) : Ch(filename, i) = "."}
             last == CHOOSE i \in dots : \A j \in dots : j <= i
         IN  lower(SubSeq(filename, last + 1, Len(filename)))
    ELSE ""

Min(a, b) == IF a <= b THEN a ELSE b

\* s[:n]
Truncate(s, n) == SubSeq(s, 1, Min(n, Len(s)))

PREVIEW_ROWS == 500
MAX_REMETENTE == 200
MAX_ENDERECO == 300
MAX_CEP == 12

\* df[['Remetente','EnderecoOrigem','CEPOrigem']] as a list of rows
ThreeColumns(df) ==
    LET a == Column(df, "Remetente")
        b == Column(df, "EnderecoOrigem")
        c == Column(df, "CEPOrigem")
    IN  List([r \in 1..Len(df.rows) |-> <<a[r], b[r], c[r]>>])

HasThreeColumns(df) == \A k \in 1..Len(NEEDED) : HasColumn(df, NEEDED[k])

\* lines 231-234: the daily table with its is_repetido column
MarkRepeats(base, df_dia) ==
    LET base_keys == Range(Column(base, "chave"))
        keys      == Column(df_dia, "chave")
    IN  SetColumn(df_dia, "is_repetido",
                  [r \in 1..Len(df_dia.rows) |->
                      IF keys[r] \in base_keys THEN "True" ELSE "False"])

\* the selection without its mask: every daily record is kept
Repetidos_unfiltered(df_dia) == Frame(df_dia.columns, df_dia.rows)

\* line 236: df_dia[df_dia['is_repetido']].copy().reset_index(drop=True)
Repetidos(df_dia) ==
    LET k == ColumnIndex(df_dia, "is_repetido")
    IN  Frame(df_dia.columns, SelectSeq(df_dia.rows, LAMBDA row : row[k] = "True"))

\* the validation without the try/except around the parse (lines 223-228)
Validate_uncaught(req, p, log) ==
    IF ~req.has_file THEN Redirect("danger", MSG_NO_FILE, log)
    ELSE IF req.filename = "" THEN Redirect("warning", MSG_NO_NAME, log)
    ELSE IF ExtOf(req.filename) \notin ALLOWED_EXT
         THEN Redirect("danger", MSG_BAD_EXT, log)
    ELSE NoResponse

\* lines 210-228: the redirect that ends the request before the matching,
\* NoResponse when the request passes.  p is the outcome of
\* parse_txt_to_df(raw, is_bytes=True) on the request's file.
Validate(req, p, log) ==
    IF ~req.has_file THEN Redirect("danger", MSG_NO_FILE, log)
    ELSE IF req.filename = "" THEN Redirect("warning", MSG_NO_NAME, log)
    ELSE IF ExtOf(req.filename) \notin ALLOWED_EXT
         THEN Redirect("danger", MSG_BAD_EXT, log)
    ELSE IF p.raised THEN Redirect("danger", MSG_READ_ERROR, log)
    ELSE NoResponse

\* lines 238-243 on df_repetidos
StoreAndShow(df_repetidos, log) ==
    [match |-> df_repetidos,
     resp  |-> Response("resultado",
                        [cat |-> "success", msg |-> MsgProcessed(FrameLen(df_repetidos))],
                        FrameLen(df_repetidos),
                        SubSeq(ThreeColumns(df_repetidos), 1,
                               Min(PREVIEW_ROWS, FrameLen(df_repetidos))),
                        log)]

\* lines 230-243.  base is DF_BASE, match the DF_MATCH before the request.
\* A frame without chave raises KeyError at line 231 or 234, before the store.
\* keep_cols matters for a daily table with no rows only: its is_repetido is
\* then an empty object-dtype Series, which pandas may take for a list of
\* column labels instead of a boolean mask; the selection at line 236 then has
\* no columns and line 242 raises KeyError after DF_MATCH was stored.
MatchAndStore(base, match, df_dia, keep_cols, log) ==
    IF ~HasColumn(base, "chave") \/ ~HasColumn(df_dia, "chave")
    THEN [match |-> match, resp |-> Error500(log)]
    ELSE IF FrameLen(df_dia) = 0 /\ ~keep_cols
         THEN [match |-> EmptyFrame, resp |-> Error500(log)]
         ELSE StoreAndShow(Repetidos(MarkRepeats(base, df_dia)), log)

\* lines 210-243 on the outcome v of the validation
Dispatch(v, base, match, p, keep_cols, log) ==
    IF v # NoResponse THEN [match |-> match, resp |-> v]
    ELSE MatchAndStore(base, match, p.df, keep_cols, log)

\* upload_dia after ensure_base_loaded: the DF_MATCH it leaves and its response
upload_dia(base, match, req, p, keep_cols, log) ==
    Dispatch(Validate(req, p, log), base, match, p, keep_cols, log)

\* lines 265-270: one line of the report per row (" -- " stands for the code's
\* dash separator, a character a TLA+ string cannot hold)
PdfLine(r) == Truncate(r[1], MAX_REMETENTE) \o " -- " \o Truncate(r[2], MAX_ENDERECO)
              \o " -- " \o Truncate(r[3], MAX_CEP)

\* lines 253-281: the document for `rows`; total is len(rows) (line 276).
\* FPDF is taken to lay out whatever text it is handed: the document is the
\* lines and the total the code passes to it.  (The dash of lines 257 and 269
\* is U+2014, which is outside Latin-1; an FPDF build that encodes core-font
\* text as Latin-1 raises on it, and the route then answers 500 instead.)
PdfDocument(rows) ==
    Response("pdf", NoFlash, Len(rows),
             List([r \in 1..Len(rows) |-> PdfLine(rows[r])]), LOG_NONE)

\* line 248 without its length test
NothingToReport_none_only(match) == match.isNone

\* line 248
NothingToReport(match) == match.isNone \/ FrameLen(match) = 0

\* download_pdf run to completion without interruption
download_pdf(match) ==
    IF NothingToReport(match) THEN Redirect("warning", MSG_NO_MATCH, LOG_NONE)
    ELSE PdfDocument(ThreeColumns(match))

\* index (lines 201-204)
index(base, log) == Response("index", NoFlash, FrameLen(base), <<>>, log)

----------------------------------------------------------------------------
(* The files and requests the model draws from.                            *)

HEADER == "Remetente\tEndereço Origem\tCEP Origem"

\* a base.txt with a title line, a blank line, the header and two records
BASE_LINES == <<"Relatorio de coletas", "", HEADER,
                "ACME LTDA\tRua A, 10\t01001-000",
                "João_Silva\tAv. B 20\t123">>

\* a file with no non-blank line
BLANK_LINES == <<"", "  ">>

\* two columns that both map to Remetente, over two records
DUP_LINES == <<"Remetente\tNome Remetente\tCEP Origem",
               "ACME\tACME LTDA\t01001-000",
               "BETA\tBeta SA\t02002-000">>

\* a snapshot written without the chave column
KEYLESS_CSV == <<"Remetente,EnderecoOrigem,CEPOrigem", "ACME LTDA,Rua A 10,01001000">>

TxtChoices == {NoFile, File(BLANK_LINES), File(BASE_LINES), File(DUP_LINES)}

CsvChoices == {NoFile, File(<<>>), File(KEYLESS_CSV),
               File(to_csv(parse_txt_to_df(BASE_LINES).df))}

\* data lines of a daily file: two that repeat a base record, one that does not
DIA_ROWS == <<"acme ltda\tRUA A 10\t01001000",
              "Joao Silva\tAv B 20\tCEP: 00000123 (SP)",
              "Beta SA\tRua C 30\t02002-000">>

MaxDiaRows == 2

\* the header followed by up to MaxDiaRows data lines, in every order
GeneratedDaily ==
    {<<HEADER>> \o [i \in 1..Len(pick) |-> DIA_ROWS[pick[i]]] :
        pick \in UNION {[1..m -> 1..Len(DIA_ROWS)] : m \in 0..MaxDiaRows}}

\* a space-padded file: a record that ends with punctuation, and a short row
SPACED_LINES == <<"Remetente  Endereco Origem  CEP Origem",
                  "ACME LTDA  Rua A, 10.  01001-000",
                  "ACME">>

SpecialDaily == {<<>>, BLANK_LINES, DUP_LINES, SPACED_LINES}

UploadRequests ==
    {Request("upload_dia", TRUE, "dia.txt", c) : c \in GeneratedDaily}
    \cup {Request("upload_dia", TRUE, "DIA.CSV", c) : c \in SpecialDaily}
    \cup {Request("upload_dia", FALSE, "", <<>>),
          Request("upload_dia", TRUE, "", <<HEADER, DIA_ROWS[1]>>),
          Request("upload_dia", TRUE, "dia.pdf", <<HEADER, DIA_ROWS[1]>>),
          Request("upload_dia", TRUE, "dia", <<HEADER, DIA_ROWS[1]>>)}

\* a function with every value computed
Table(f) == f @@ <<>>

\* parse_txt_to_df on each file a request may carry, computed once
ParsedUpload ==
    Table([c \in {r.content : r \in UploadRequests} |-> parse_txt_to_df(c)])


----------------------------------------------------------------------------
(* The routes as actions.                                                  *)

Idle == pc = "idle"

FnUnchanged == UNCHANGED <<fn_op, fn_in, fn_out>>

\* GET /
Index ==
    \E save_ok \in BOOLEAN :
        \E e \in {ensure_base_loaded(DF_BASE, base_csv, base_txt, save_ok)} :
            /\ DF_BASE' = e.df
            /\ base_csv' = e.csv
            /\ response' = IF e.raised THEN Error500(e.log) ELSE index(e.df, e.log)
            /\ request' = Request("index", FALSE, "", <<>>)
            /\ UNCHANGED <<base_txt, DF_MATCH, pc, dl_seen, dl_rows>>
            /\ FnUnchanged

\* POST /upload_dia with one of `requests`
Upload(requests) ==
    \E save_ok \in BOOLEAN :
        \E e \in {ensure_base_loaded(DF_BASE, base_csv, base_txt, save_ok)} :
            \E req \in requests, keep_cols \in BOOLEAN :
                \E u \in {upload_dia(e.df, DF_MATCH, req, ParsedUpload[req.content],
                                     keep_cols, e.log)} :
                    /\ DF_BASE' = e.df
                    /\ base_csv' = e.csv
                    /\ DF_MATCH' = IF e.raised THEN DF_MATCH ELSE u.match
                    /\ response' = IF e.raised THEN Error500(e.log) ELSE u.resp
                    /\ request' = req
                    /\ UNCHANGED <<base_txt, pc, dl_seen, dl_rows>>
                    /\ FnUnchanged

UploadDia == Upload(UploadRequests)

\* GET /download_pdf, handled without interruption
DownloadPdf ==
    /\ Idle
    /\ response' = download_pdf(DF_MATCH)
    /\ request' = Request("download_pdf", FALSE, "", <<>>)
    /\ UNCHANGED <<base_csv, base_txt, DF_BASE, DF_MATCH, pc, dl_seen, dl_rows>>
    /\ FnUnchanged

\* The process is started again: the globals are None (lines 23-24), the files stay.
Restart ==
    /\ Idle
    /\ DF_BASE' = None
    /\ DF_MATCH' = None
    /\ response' = NoResponse
    /\ request' = NoRequest
    /\ UNCHANGED <<base_csv, base_txt, pc, dl_seen, dl_rows>>
    /\ FnUnchanged

FnIdle == fn_op = "none" /\ fn_in = "" /\ fn_out = ""

Init ==
    /\ base_csv \in CsvChoices
    /\ base_txt \in TxtChoices
    /\ DF_BASE = None
    /\ DF_MATCH = None
    /\ response = NoResponse
    /\ request = NoRequest
    /\ pc = "idle"
    /\ dl_seen = None
    /\ dl_rows = <<>>
    /\ FnIdle

Next == Index \/ UploadDia \/ DownloadPdf \/ Restart

Spec == Init /\ [][Next]_vars

----------------------------------------------------------------------------
(* download_pdf step by step, beside upload_dia: Flask's development       *)
(* server handles each request in its own thread, and DF_MATCH is read at  *)
(* lines 248 (twice) and 262 with no lock.                                 *)

AppUnchanged ==
    UNCHANGED <<base_csv, base_txt, DF_BASE, DF_MATCH, response, request,
                pc, dl_seen, dl_rows>>

\* line 248, left operand: DF_MATCH is None
DlCheckNone ==
    /\ pc = "idle"
    /\ request' = Request("download_pdf", FALSE, "", <<>>)
    /\ dl_seen' = None
    /\ dl_rows' = <<>>
    /\ IF DF_MATCH.isNone
       THEN /\ response' = Redirect("warning", MSG_NO_MATCH, LOG_NONE)
            /\ pc' = "idle"
       ELSE /\ pc' = "len"
            /\ UNCHANGED response
    /\ UNCHANGED <<base_csv, base_txt, DF_BASE, DF_MATCH>>
    /\ FnUnchanged

\* line 248, right operand: len(DF_MATCH) == 0
DlCheckLen ==
    /\ pc = "len"
    /\ dl_seen' = DF_MATCH
    /\ IF FrameLen(DF_MATCH) = 0
       THEN /\ response' = Redirect("warning", MSG_NO_MATCH, LOG_NONE)
            /\ pc' = "idle"
       ELSE /\ pc' = "rows"
            /\ UNCHANGED response
    /\ UNCHANGED <<base_csv, base_txt, DF_BASE, DF_MATCH, request, dl_rows>>
    /\ FnUnchanged

\* line 262: rows = DF_MATCH[[...]].fillna('').values.tolist()
DlReadRows ==
    /\ pc = "rows"
    /\ IF HasThreeColumns(DF_MATCH)
       THEN /\ dl_rows' = ThreeColumns(DF_MATCH)
            /\ pc' = "render"
            /\ UNCHANGED response
       ELSE /\ response' = Error500(LOG_NONE)
            /\ pc' = "idle"
            /\ UNCHANGED dl_rows
    /\ UNCHANGED <<base_csv, base_txt, DF_BASE, DF_MATCH, request, dl_seen>>
    /\ FnUnchanged

\* lines 265-281
DlRender ==
    /\ pc = "render"
    /\ response' = PdfDocument(dl_rows)
    /\ pc' = "idle"
    /\ UNCHANGED <<base_csv, base_txt, DF_BASE, DF_MATCH, request, dl_seen, dl_rows>>
    /\ FnUnchanged

InitConc ==
    /\ Init
    /\ base_csv = NoFile
    /\ base_txt = File(BASE_LINES)

\* the uploads that race the download: two repeats, one repeat, a record that
\* is not in the base, and a file with the header alone
ConcRequests ==
    {r \in UploadRequests :
        /\ r.filename = "dia.txt"
        /\ r.content \in {<<HEADER, DIA_ROWS[1], DIA_ROWS[2]>>, <<HEADER, DIA_ROWS[1]>>,
                          <<HEADER, DIA_ROWS[3]>>, <<HEADER>>}}

UploadDiaConc == Upload(ConcRequests)

NextConc == Index \/ UploadDiaConc \/ DlCheckNone \/ DlCheckLen \/ DlReadRows \/ DlRender

SpecConc == InitConc /\ [][NextConc]_vars

----------------------------------------------------------------------------
(* norm_text and norm_cep on their own, over texts of a small alphabet and *)
(* postal strings of up to MaxCepDigits digits.                            *)

MaxTextLen == 3
MaxCepDigits == 10

ALPHABET == {"a", "Ç", " ", ",", "_", "7"}

RECURSIVE TextsUpTo(_)
TextsUpTo(n) ==
    IF n = 0 THEN {""}
    ELSE UNION {{t, t \o c} : t \in TextsUpTo(n - 1), c \in ALPHABET}

TextInputs == TextsUpTo(MaxTextLen)

RECURSIVE DigitRun(_)
\* the n digits 1 2 3 ... 9 0 1 ...
DigitRun(n) == IF n = 0 THEN "" ELSE DigitRun(n - 1) \o Ch(DIGITS, (n % 10) + 1)

\* the digits bare, labelled, and with the hyphen before the last three
CepInputs ==
    UNION {{DigitRun(n),
            "CEP: " \o DigitRun(n),
            IF n > 3 THEN SubSeq(DigitRun(n), 1, n - 3) \o "-" \o SubSeq(DigitRun(n), n - 2, n)
            ELSE "0" \o DigitRun(n) \o "."} : n \in 0..MaxCepDigits}

AppIdle ==
    /\ base_csv = NoFile
    /\ base_txt = NoFile
    /\ DF_BASE = None
    /\ DF_MATCH = None
    /\ response = NoResponse
    /\ request = NoRequest
    /\ pc = "idle"
    /\ dl_seen = None
    /\ dl_rows = <<>>

InitNorm ==
    /\ AppIdle
    /\ fn_op = "none"
    /\ fn_in \in TextInputs \cup CepInputs
    /\ fn_out = ""

\* lines 151-152
NormText ==
    /\ fn_op' = "norm_text"
    /\ fn_out' = norm_text(fn_in)
    /\ UNCHANGED fn_in
    /\ AppUnchanged

\* line 153
NormCep ==
    /\ fn_op' = "norm_cep"
    /\ fn_out' = norm_cep(fn_in)
    /\ UNCHANGED fn_in
    /\ AppUnchanged

NextNorm == NormText \/ NormCep

SpecNorm == InitNorm /\ [][NextNorm]_vars

----------------------------------------------------------------------------
(* The column mapper on its own, over labels of up to MaxWords words.      *)

MaxWords == 2

WORDS == {"Remetente", "Endereco", "Endereço", "Origem", "Destino", "CEP",
          "Destinatario", "Obs"}

RECURSIVE LabelsUpTo(_)
LabelsUpTo(n) ==
    IF n = 1 THEN WORDS
    ELSE UNION {{l, l \o " " \o w} : l \in LabelsUpTo(n - 1), w \in WORDS}

Labels == LabelsUpTo(MaxWords)

InitMap ==
    /\ AppIdle
    /\ fn_op = "none"
    /\ fn_in \in Labels
    /\ fn_out = ""

\* lines 98-113 on one label
MapLabel ==
    /\ fn_op' = "colmap"
    /\ fn_out' = colmap(fn_in)
    /\ UNCHANGED fn_in
    /\ AppUnchanged

\* lines 98-120 on a table whose only column has the label
MapHeader ==
    /\ fn_op' = "mapper"
    /\ fn_out' = MappedColumns(<<fn_in>>)
    /\ UNCHANGED fn_in
    /\ AppUnchanged

NextMap == MapLabel \/ MapHeader

SpecMap == InitMap /\ [][NextMap]_vars

----------------------------------------------------------------------------
(* Properties.                                                             *)

\* the last request was an upload that got to line 243
UploadShown == request.route = "upload_dia" /\ response.kind = "resultado"

\* the frame parsed from the last request's file
Daily == ParsedUpload[request.content].df

\* the chave cells of a frame, read without the model's Column
KeysOf(df) ==
    {df.rows[r][i] : r \in 1..Len(df.rows),
                     i \in {j \in 1..Len(df.columns) : df.columns[j] = "chave"}}

\* the positions of the daily records whose key the base holds, in file order
RepeatPositions ==
    {r \in 1..Len(Daily.rows) : KeysOf(Frame(Daily.columns, <<Daily.rows[r]>>))
                                    \subseteq KeysOf(DF_BASE)}

\* C1: after an upload that reached the store step, DF_MATCH holds exactly the
\* daily records whose key is in the Base Table's key set: all of them, no
\* other record, in the order of the daily file, nothing of an earlier result.
C1_MatchIsFilteredDaily ==
    UploadShown =>
        /\ FrameLen(DF_MATCH) = Cardinality(RepeatPositions)
        /\ \A k \in 1..FrameLen(DF_MATCH) :
              SubSeq(DF_MATCH.rows[k], 1, Len(Daily.columns))
                  = Daily.rows[Nth(RepeatPositions, k)]

\* C1 witness: an upload of two records stored the one that repeats the base
C1_Witness ==
    /\ UploadShown
    /\ FrameLen(Daily) = 2
    /\ FrameLen(DF_MATCH) = 1
    /\ RepeatPositions = {2}

\* C2: when the snapshot exists but lacks the key column or cannot be read, the
\* first ensure_base_loaded rebuilds the Base Table from base.txt and replaces
\* the snapshot: DF_BASE is the parse of base.txt and base.csv has a key column
\* (base.txt exists and the disk took the write).
C2_BrokenSnapshotRebuilt ==
    [][(/\ DF_BASE.isNone
        /\ ~DF_BASE'.isNone
        /\ base_csv.exists
        /\ base_txt.exists
        /\ response'.log # LOG_SAVE_ERROR
        /\ \/ read_csv_raises(base_csv.lines)
           \/ ~HasColumn(read_csv(base_csv.lines), "chave"))
       => /\ DF_BASE' = parse_txt_to_df(base_txt.lines).df
          /\ base_csv'.exists
          /\ ~read_csv_raises(base_csv'.lines)
          /\ HasColumn(read_csv(base_csv'.lines), "chave")]_vars

\* the last request was an upload whose file has an allowed extension
AllowedUpload ==
    /\ request.route = "upload_dia"
    /\ request.has_file
    /\ request.filename \in {"dia.txt", "DIA.CSV"}

\* C3: with neither base.csv nor base.txt, the Base Table is the empty table
\* with the four columns, and an upload of a file with an allowed extension and
\* no non-blank line is handled to the end and stores an empty Match Result.
C3_EmptyBaseBlankDaily ==
    (base_csv = NoFile /\ base_txt = NoFile /\ AllowedUpload
        /\ request.content \in {<<>>, BLANK_LINES})
    => /\ DF_BASE = EmptyBase
       /\ response.kind = "resultado"
       /\ ~DF_MATCH.isNone
       /\ FrameLen(DF_MATCH) = 0

\* the request is one the validation rejects or whose file cannot be parsed
Refused(req) ==
    \/ ~req.has_file
    \/ req.filename \in {"", "dia.pdf", "dia"}
    \/ ParsedUpload[req.content].raised

\* C4: an upload that the validation rejects, or whose parsing raises, ends in
\* a redirect with a message and leaves DF_MATCH as it was before the request
\* (the request got as far as the validation: ensure_base_loaded returned).
C4_RefusedUploadKeepsMatch ==
    [][(request'.route = "upload_dia" /\ ~DF_BASE'.isNone /\ Refused(request'))
       => /\ DF_MATCH' = DF_MATCH
          /\ response'.kind = "redirect"
          /\ response'.flash.msg # ""]_vars

\* C4 witness: a refused upload answered with its message while the repeats of
\* an earlier upload are still stored
C4_Witness ==
    /\ request.route = "upload_dia"
    /\ Refused(request)
    /\ response.kind = "redirect"
    /\ response.flash.msg = MSG_READ_ERROR
    /\ FrameLen(DF_MATCH) > 0

\* the last request was a report request
ReportAsked == request.route = "download_pdf"

C6_NormIdempotent ==
    /\ fn_op = "norm_text" => norm_text(fn_out) = fn_out
    /\ fn_op = "norm_cep" => norm_cep(fn_out) = fn_out

\* the positions of the digits of a string
DigitPositions(t) == {i \in 1..Len(t) : Ch(t, i) \in CharsOf("0123456789")}

\* C7 as amended: cep_norm has digits only; it is empty exactly when the input
\* has no digit; otherwise it is the input's digits in order after as many
\* zeros as it takes to reach 8 characters, none when there are 8 or more.
C7_CepDigitsPadded ==
    fn_op = "norm_cep" =>
        /\ DigitPositions(fn_out) = 1..Len(fn_out)
        /\ fn_out = "" <=> DigitPositions(fn_in) = {}
        /\ fn_out # "" =>
              /\ Len(fn_out) = IF Cardinality(DigitPositions(fn_in)) > 8
                               THEN Cardinality(DigitPositions(fn_in)) ELSE 8
              /\ \A k \in 1..Len(fn_out) :
                    Ch(fn_out, k) =
                        IF k <= Len(fn_out) - Cardinality(DigitPositions(fn_in)) THEN "0"
                        ELSE Ch(fn_in, Nth(DigitPositions(fn_in),
                                           k - (Len(fn_out)
                                                - Cardinality(DigitPositions(fn_in)))))

\* C7 witness: a postal string of more than 8 digits, normalised
C7_Witness ==
    /\ fn_op = "norm_cep"
    /\ Cardinality(DigitPositions(fn_in)) = 9
    /\ Len(fn_out) = 9

\* C7 as stated: cep_norm has digits only and is empty, when the input has no
\* digit, or exactly 8 characters long.
C7_CepEmptyOrEight ==
    fn_op = "norm_cep" =>
        /\ DigitPositions(fn_out) = 1..Len(fn_out)
        /\ fn_out = "" <=> DigitPositions(fn_in) = {}
        /\ fn_out # "" => Len(fn_out) = 8

\* C8: a label is renamed by the first rule it matches, case apart: remetent;
\* orig with endereço or endereco anywhere; cep with orig; endereço or
\* endereco with dest; destinat; else it keeps its name.  After the mapping
\* Remetente, EnderecoOrigem and CEPOrigem exist.
C8_MapperRules ==
    LET low     == lower(fn_in)
        address == Contains(low, "endereço") \/ Contains(low, "endereco")
    IN  /\ fn_op = "colmap" =>
              fn_out = IF Contains(low, "remetent") THEN "Remetente"
                       ELSE IF address /\ Contains(low, "orig") THEN "EnderecoOrigem"
                       ELSE IF Contains(low, "cep") /\ Contains(low, "orig")
                            THEN "CEPOrigem"
                       ELSE IF address /\ Contains(low, "dest") THEN "EnderecoDestino"
                       ELSE IF Contains(low, "destinat") THEN "Destinatario"
                       ELSE fn_in
        /\ fn_op = "mapper" => Range(NEEDED) \subseteq Range(fn_out)

\* C9: the rows download_pdf serialises are those of the Match Result its
\* emptiness check saw, and there is at least one.
C9_ReportFromCheckedResult ==
    pc = "render" => /\ dl_rows = ThreeColumns(dl_seen)
                     /\ Len(dl_rows) > 0

\* C10: once ensure_base_loaded has returned, DF_BASE has a chave column.
C10_BaseHasKey == ~DF_BASE.isNone => "chave" \in Range(DF_BASE.columns)

====
